---- MODULE Spec2Model ----
(***************************************************************************)
(* The attribute-schema registry of meilisearch-schema: the field interner *)
(* (FieldsMap), the PositionMap and the Schema that composes them with the *)
(* ranked / displayed / searchable predicates and the primary key.         *)
(***************************************************************************)
EXTENDS Integers, Sequences, FiniteSets, TLC

VARIABLES
    fields_map,        \* Schema.fields_map: the interner
    primary_key,       \* Schema.primary_key: Option<FieldId>, {} or {id}
    ranked,            \* Schema.ranked: HashSet<FieldId>
    displayed,         \* Schema.displayed: OptionAll<HashSet<FieldId>>
    searchable,        \* Schema.searchable: OptionAll<Vec<FieldId>>
    indexed_position,  \* Schema.indexed_position: PositionMap
    last,              \* how the last public Schema call ended: Ok or the error
    map,               \* a PositionMap driven directly through its own API
    map_last,          \* the last call on map: operation, arguments, outcome
    map_pre            \* map as it was when that call started

vars == <<fields_map, primary_key, ranked, displayed, searchable,
          indexed_position, last, map, map_last, map_pre>>

schemaVars == <<fields_map, primary_key, ranked, displayed, searchable,
                indexed_position, last>>

mapVars == <<map, map_last, map_pre>>

-----------------------------------------------------------------------------
(* Bounds of the model *)

\* identifiers the interner can issue before it is exhausted
MaxFields == 2
\* longest list handed to update_ranked / update_displayed / update_searchable
MaxData == 2
\* longest position map of a schema (it grows on every insert_with_position)
MaxLen == 2
\* identifiers 0..MaxId handed to a PositionMap driven directly
MaxId == 2
\* positions 0..MaxPos handed to PositionMap::insert
MaxPos == 4
\* longest PositionMap driven directly
MaxMapLen == 4

Names == {"title", "body", "id"}

RECURSIVE SeqsUpTo(_)
SeqsUpTo(n) ==
    IF n = 0 THEN {<<>>}
    ELSE LET shorter == SeqsUpTo(n - 1)
         IN  shorter \cup {Append(s, x) : s \in {t \in shorter : Len(t) = n - 1}, x \in Names}

DataLists == SeqsUpTo(MaxData)

-----------------------------------------------------------------------------
(* Values *)

None == {}
Some(x) == {x}

U16(n) == n % 65536

Range(s) == {s[i] : i \in 1..Len(s)}

IsDistinct(s) == \A i, j \in 1..Len(s) : i # j => s[i] # s[j]

Ok(val) == [ok |-> TRUE, err |-> "", val |-> val]
Err(e) == [ok |-> FALSE, err |-> e, val |-> <<>>]

OptAll == [tag |-> "All", v |-> <<>>]
OptSome(x) == [tag |-> "Some", v |-> x]
OptNone == [tag |-> "None", v |-> <<>>]

is_all(o) == o.tag = "All"

-----------------------------------------------------------------------------
(* The field interner *)

FieldsMapDefault == [name_map |-> <<>>, id_map |-> <<>>, next_id |-> 0]

FieldsMapId(fm, name) ==
    IF name \in DOMAIN fm.name_map THEN Some(fm.name_map[name]) ELSE None

\* id_map is kept as the sequence of names in identifier order: id k is at k + 1
FieldsMapName(fm, id) ==
    IF id + 1 \in DOMAIN fm.id_map THEN Some(fm.id_map[id + 1]) ELSE None

FieldsMapIter(fm) == {<<n, fm.name_map[n]>> : n \in DOMAIN fm.name_map}

FieldsMapInsert(fm, name) ==
    IF name \in DOMAIN fm.name_map
    THEN [fm |-> fm, res |-> Ok(<<fm.name_map[name]>>)]
    ELSE IF fm.next_id >= MaxFields
    THEN [fm |-> fm, res |-> Err("MaxFieldsLimitExceeded")]
    ELSE [fm |-> [name_map |-> [n \in DOMAIN fm.name_map \cup {name} |->
                                   IF n = name THEN fm.next_id ELSE fm.name_map[n]],
                  id_map |-> Append(fm.id_map, name),
                  next_id |-> fm.next_id + 1],
          res |-> Ok(<<fm.next_id>>)]

-----------------------------------------------------------------------------
(* PositionMap *)

PositionMapDefault == [pos_to_field |-> <<>>, field_to_pos |-> <<>>]

PMLen(m) == Len(m.pos_to_field)

\* Vec::remove(i) and Vec::insert(i, x), i zero-based
VecRemove(v, i) == [k \in 1..(Len(v) - 1) |-> IF k <= i THEN v[k] ELSE v[k + 1]]
VecInsert(v, i, x) ==
    [k \in 1..(Len(v) + 1) |-> IF k <= i THEN v[k] ELSE IF k = i + 1 THEN x ELSE v[k - 1]]

\* BTreeMap::insert(k, v)
BTreeInsert(f, k, v) == [x \in DOMAIN f \cup {k} |-> IF x = k THEN v ELSE f[x]]

\* clear() then extend() with (field, position) pairs in position order: a
\* later pair overwrites an earlier one with the same key
Rebuild(v) ==
    [f \in Range(v) |->
        U16((CHOOSE p \in 1..Len(v) : v[p] = f /\ \A q \in 1..Len(v) : v[q] = f => q <= p) - 1)]

PMPush(m, id) ==
    [pos_to_field |-> Append(m.pos_to_field, id),
     field_to_pos |-> BTreeInsert(m.field_to_pos, id, U16(PMLen(m)))]

\* mutant: the identifier takes the place of the occupant of the position,
\* which is lost
PMInsertEvicting(m, id, pos) ==
    LET known == id \in DOMAIN m.field_to_pos
        uold  == IF known THEN m.field_to_pos[id] ELSE 0
    IN  IF known /\ uold >= PMLen(m)
        THEN [m |-> m, outcome |-> "panicked"]
        ELSE LET removed == IF known THEN VecRemove(m.pos_to_field, uold)
                                     ELSE m.pos_to_field
                 upos    == IF known /\ uold < pos THEN pos + 1 ELSE pos
                 placed  == IF upos < Len(removed)
                            THEN [removed EXCEPT ![upos + 1] = id]
                            ELSE Append(removed, id)
             IN  [m |-> [pos_to_field |-> placed, field_to_pos |-> Rebuild(placed)],
                  outcome |-> "returned"]

\* the outcome is "panicked" where Vec::remove is reached with an index out of range
PMInsert(m, id, pos) ==
    LET known == id \in DOMAIN m.field_to_pos
        uold  == IF known THEN m.field_to_pos[id] ELSE 0
    IN  IF known /\ uold >= PMLen(m)
        THEN [m |-> m, outcome |-> "panicked"]
        ELSE LET removed == IF known THEN VecRemove(m.pos_to_field, uold)
                                     ELSE m.pos_to_field
                 upos    == IF known /\ uold < pos THEN pos + 1 ELSE pos
                 placed  == IF upos < Len(removed)
                            THEN VecInsert(removed, upos, id)
                            ELSE Append(removed, id)
             IN  [m |-> [pos_to_field |-> placed, field_to_pos |-> Rebuild(placed)],
                  outcome |-> "returned"]

PMFieldToPos(m, id) ==
    IF id \in DOMAIN m.field_to_pos THEN Some(m.field_to_pos[id]) ELSE None

PMPosToField(m, pos) ==
    IF pos + 1 \in DOMAIN m.pos_to_field THEN Some(m.pos_to_field[pos + 1]) ELSE None

\* the (field, position) pairs in ascending position order
PMFieldPos(m) == [i \in 1..PMLen(m) |-> <<m.pos_to_field[i], U16(i - 1)>>]

-----------------------------------------------------------------------------
(* Schema: the operations as functions from a schema to a schema and a result *)

Cur ==
    [fields_map |-> fields_map, primary_key |-> primary_key, ranked |-> ranked,
     displayed |-> displayed, searchable |-> searchable,
     indexed_position |-> indexed_position]

SchemaDefault ==
    [fields_map |-> FieldsMapDefault, primary_key |-> None, ranked |-> {},
     displayed |-> OptAll, searchable |-> OptAll,
     indexed_position |-> PositionMapDefault]

\* mutant: the primary key is recorded but its name is not interned
with_primary_key_unregistered(name) ==
    [SchemaDefault EXCEPT !.primary_key = Some(FieldsMapDefault.next_id)]

with_primary_key(name) ==
    LET r == FieldsMapInsert(FieldsMapDefault, name)
    IN  [fields_map |-> r.fm, primary_key |-> Some(r.res.val[1]), ranked |-> {},
         displayed |-> OptAll, searchable |-> OptAll,
         indexed_position |-> PositionMapDefault]

insert(s, name) ==
    LET r == FieldsMapInsert(s.fields_map, name)
    IN  [s |-> [s EXCEPT !.fields_map = r.fm], res |-> r.res]

\* mutant: no check that a primary key is already there
set_primary_key_unchecked(s, name) ==
    LET r == insert(s, name)
    IN  IF ~r.res.ok THEN r
        ELSE [s |-> [r.s EXCEPT !.primary_key = Some(r.res.val[1])], res |-> r.res]

\* mutant: the primary key is also given the last position
set_primary_key_positioning(s, name) ==
    IF s.primary_key # None
    THEN [s |-> s, res |-> Err("PrimaryKeyAlreadyPresent")]
    ELSE LET r == insert(s, name)
         IN  IF ~r.res.ok THEN r
             ELSE [s |-> [r.s EXCEPT !.primary_key = Some(r.res.val[1]),
                                     !.indexed_position = PMPush(@, r.res.val[1])],
                   res |-> r.res]

set_primary_key(s, name) ==
    IF s.primary_key # None
    THEN [s |-> s, res |-> Err("PrimaryKeyAlreadyPresent")]
    ELSE LET r == insert(s, name)
         IN  IF ~r.res.ok THEN r
             ELSE [s |-> [r.s EXCEPT !.primary_key = Some(r.res.val[1])], res |-> r.res]

insert_position_last(s, id) ==
    [s |-> [s EXCEPT !.indexed_position = PMPush(s.indexed_position, id)],
     position |-> U16(PMLen(s.indexed_position))]

\* mutant: the position is returned in the place of the identifier
insert_with_position_swapped(s, name) ==
    LET r == FieldsMapInsert(s.fields_map, name)
    IN  IF ~r.res.ok THEN [s |-> s, res |-> r.res]
        ELSE LET id == r.res.val[1]
                 p  == insert_position_last([s EXCEPT !.fields_map = r.fm], id)
             IN  [s |-> p.s, res |-> Ok(<<p.position, p.position>>)]

insert_with_position(s, name) ==
    LET r == FieldsMapInsert(s.fields_map, name)
    IN  IF ~r.res.ok THEN [s |-> s, res |-> r.res]
        ELSE LET id == r.res.val[1]
                 p  == insert_position_last([s EXCEPT !.fields_map = r.fm], id)
             IN  [s |-> p.s, res |-> Ok(<<id, p.position>>)]

\* mutant: a ranked field is also added to a displayed Subset
set_ranked_displaying(s, name) ==
    LET r == FieldsMapInsert(s.fields_map, name)
    IN  IF ~r.res.ok THEN [s |-> s, res |-> r.res]
        ELSE [s |-> [s EXCEPT !.fields_map = r.fm,
                              !.ranked = @ \cup {r.res.val[1]},
                              !.displayed = IF @.tag = "Some"
                                            THEN OptSome(@.v \cup {r.res.val[1]}) ELSE @],
              res |-> r.res]

set_ranked(s, name) ==
    LET r == FieldsMapInsert(s.fields_map, name)
    IN  IF ~r.res.ok THEN [s |-> s, res |-> r.res]
        ELSE [s |-> [s EXCEPT !.fields_map = r.fm,
                              !.ranked = @ \cup {r.res.val[1]}],
              res |-> r.res]

\* mutant: displayed is taken before the name is interned, and an error of
\* the interner returns with None left in its place
set_displayed_taking_first(s, name) ==
    LET r == FieldsMapInsert(s.fields_map, name)
    IN  IF ~r.res.ok THEN [s |-> [s EXCEPT !.displayed = OptNone], res |-> r.res]
        ELSE LET id == r.res.val[1]
                 d  == CASE s.displayed.tag = "All"  -> OptAll
                        [] s.displayed.tag = "None" -> OptSome({id})
                        [] s.displayed.tag = "Some" -> OptSome(s.displayed.v \cup {id})
             IN  [s |-> [s EXCEPT !.fields_map = r.fm, !.displayed = d], res |-> r.res]

set_displayed(s, name) ==
    LET r == FieldsMapInsert(s.fields_map, name)
    IN  IF ~r.res.ok THEN [s |-> s, res |-> r.res]
        ELSE LET id == r.res.val[1]
                 d  == CASE s.displayed.tag = "All"  -> OptAll
                        [] s.displayed.tag = "None" -> OptSome({id})
                        [] s.displayed.tag = "Some" -> OptSome(s.displayed.v \cup {id})
             IN  [s |-> [s EXCEPT !.fields_map = r.fm, !.displayed = d], res |-> r.res]

clear_ranked(s) == [s |-> [s EXCEPT !.ranked = {}], res |-> Ok(<<>>)]

\* for name in data { f(name)?; } Ok(())
RECURSIVE ForEach(_, _, _)
ForEach(s, data, kind) ==
    IF data = <<>> THEN [s |-> s, res |-> Ok(<<>>)]
    ELSE LET r == IF kind = "ranked" THEN set_ranked(s, Head(data))
                  ELSE set_displayed(s, Head(data))
         IN  IF ~r.res.ok THEN r ELSE ForEach(r.s, Tail(data), kind)

update_ranked(s, data) == ForEach([s EXCEPT !.ranked = {}], data, "ranked")

\* mutant: a displayed predicate in All mode is left as it is
update_displayed_keeping_all(s, data) ==
    ForEach([s EXCEPT !.displayed = IF @.tag = "All" THEN OptAll ELSE OptSome({})],
            data, "displayed")

update_displayed(s, data) == ForEach([s EXCEPT !.displayed = OptSome({})], data, "displayed")

\* PositionMap::insert returns no evicted identifier, so the push in the body of
\* the `if let Some(id)` is never reached
RECURSIVE SearchableLoop(_, _, _, _)
SearchableLoop(s, data, pos, acc) ==
    IF pos >= Len(data) THEN [s |-> [s EXCEPT !.searchable = OptSome(acc)], res |-> Ok(<<>>)]
    ELSE LET r == insert(s, data[pos + 1])
         IN  IF ~r.res.ok THEN r
             ELSE LET id == r.res.val[1]
                      pm == PMInsert(r.s.indexed_position, id, U16(pos))
                  IN  SearchableLoop([r.s EXCEPT !.indexed_position = pm.m],
                                     data, pos + 1, Append(acc, id))

\* mutant: a listed field that has no position is pushed, one that has a
\* position keeps it
RECURSIVE SearchableLoopPushing(_, _, _, _)
SearchableLoopPushing(s, data, pos, acc) ==
    IF pos >= Len(data) THEN [s |-> [s EXCEPT !.searchable = OptSome(acc)], res |-> Ok(<<>>)]
    ELSE LET r == insert(s, data[pos + 1])
         IN  IF ~r.res.ok THEN r
             ELSE LET id == r.res.val[1]
                      pm == IF PMFieldToPos(r.s.indexed_position, id) = None
                            THEN PMPush(r.s.indexed_position, id)
                            ELSE r.s.indexed_position
                  IN  SearchableLoopPushing([r.s EXCEPT !.indexed_position = pm],
                                            data, pos + 1, Append(acc, id))

update_searchable_pushing(s, data) == SearchableLoopPushing(s, data, 0, <<>>)

\* mutant: the new list is appended to the previous one
update_searchable_merge(s, data) ==
    SearchableLoop(s, data, 0, IF s.searchable.tag = "Some" THEN s.searchable.v ELSE <<>>)

update_searchable(s, data) == SearchableLoop(s, data, 0, <<>>)

\* mutant: displayed is set to All as well
set_all_fields_as_indexed_and_displayed(s) ==
    [s |-> [s EXCEPT !.searchable = OptAll, !.displayed = OptAll], res |-> Ok(<<>>)]

set_all_fields_as_indexed(s) == [s |-> [s EXCEPT !.searchable = OptAll], res |-> Ok(<<>>)]

set_all_fields_as_displayed(s) == [s |-> [s EXCEPT !.displayed = OptAll], res |-> Ok(<<>>)]

-----------------------------------------------------------------------------
(* Schema: the read entry points *)

primary_key_name(s) ==
    {n \in Names : \E id \in s.primary_key : FieldsMapName(s.fields_map, id) = Some(n)}

schema_id(s, name) == FieldsMapId(s.fields_map, name)

schema_name(s, id) == FieldsMapName(s.fields_map, id)

names(s) == {p[1] : p \in FieldsMapIter(s.fields_map)}

displayed_ids(s) ==
    CASE s.displayed.tag = "Some" -> s.displayed.v
      [] s.displayed.tag = "All"  -> {p[2] : p \in FieldsMapIter(s.fields_map)}
      [] s.displayed.tag = "None" -> {}

is_displayed_all(s) == is_all(s.displayed)

displayed_names(s) == UNION {schema_name(s, f) : f \in displayed_ids(s)}

\* mutant: in All mode, every known field instead of the positioned ones
searchable_attributes_known(s) ==
    CASE s.searchable.tag = "Some" -> s.searchable.v
      [] s.searchable.tag = "All"  ->
            [i \in 1..s.fields_map.next_id |-> i - 1]
      [] s.searchable.tag = "None" -> <<>>

searchable_attributes(s) ==
    CASE s.searchable.tag = "Some" -> s.searchable.v
      [] s.searchable.tag = "All"  ->
            [i \in 1..PMLen(s.indexed_position) |-> PMFieldPos(s.indexed_position)[i][1]]
      [] s.searchable.tag = "None" -> <<>>

\* filter_map: the entries without a name are dropped
RECURSIVE FilterNames(_, _)
FilterNames(s, ids) ==
    IF ids = <<>> THEN <<>>
    ELSE LET n == schema_name(s, Head(ids))
         IN  (IF n = None THEN <<>> ELSE <<CHOOSE x \in n : TRUE>>) \o FilterNames(s, Tail(ids))

searchable_attributes_str(s) == FilterNames(s, searchable_attributes(s))

is_ranked(s, id) == id \in s.ranked

is_displayed(s, id) ==
    CASE s.displayed.tag = "Some" -> id \in s.displayed.v
      [] s.displayed.tag = "All"  -> TRUE
      [] s.displayed.tag = "None" -> FALSE

get_position(s, id) == PMFieldToPos(s.indexed_position, id)

is_searchable_all(s) == is_all(s.searchable)

indexed_pos_to_field_id(s, pos) == PMPosToField(s.indexed_position, pos)

-----------------------------------------------------------------------------
(* The state machine of a schema: one action per public operation *)

Call(r) ==
    /\ fields_map' = r.s.fields_map
    /\ primary_key' = r.s.primary_key
    /\ ranked' = r.s.ranked
    /\ displayed' = r.s.displayed
    /\ searchable' = r.s.searchable
    /\ indexed_position' = r.s.indexed_position
    /\ last' = [ok |-> r.res.ok, err |-> r.res.err]
    /\ UNCHANGED mapVars

Insert == \E n \in Names : Call(insert(Cur, n))

InsertWithPosition ==
    /\ PMLen(indexed_position) < MaxLen
    /\ \E n \in Names : Call(insert_with_position(Cur, n))

SetPrimaryKey == \E n \in Names : Call(set_primary_key(Cur, n))

SetRanked == \E n \in Names : Call(set_ranked(Cur, n))

ClearRanked == Call(clear_ranked(Cur))

UpdateRanked == \E d \in DataLists : Call(update_ranked(Cur, d))

UpdateDisplayed == \E d \in DataLists : Call(update_displayed(Cur, d))

UpdateSearchable ==
    \E d \in DataLists : Call(update_searchable(Cur, d))

SetAllFieldsAsIndexed ==
    Call(set_all_fields_as_indexed(Cur))

SetAllFieldsAsDisplayed ==
    Call(set_all_fields_as_displayed(Cur))

NoCall == [ok |-> TRUE, err |-> ""]

InitSchema(s) ==
    /\ fields_map = s.fields_map
    /\ primary_key = s.primary_key
    /\ ranked = s.ranked
    /\ displayed = s.displayed
    /\ searchable = s.searchable
    /\ indexed_position = s.indexed_position
    /\ last = NoCall

InitMap ==
    /\ map = PositionMapDefault
    /\ map_last = [op |-> "new", id |-> 0, pos |-> 0, outcome |-> "returned"]
    /\ map_pre = PositionMapDefault

\* Schema::default() or Schema::with_primary_key(name)
Init ==
    /\ \E s \in {SchemaDefault} \cup {with_primary_key(n) : n \in Names} : InitSchema(s)
    /\ InitMap

Next ==
    \/ Insert
    \/ InsertWithPosition
    \/ SetPrimaryKey
    \/ SetRanked
    \/ ClearRanked
    \/ UpdateRanked
    \/ UpdateDisplayed
    \/ UpdateSearchable
    \/ SetAllFieldsAsIndexed
    \/ SetAllFieldsAsDisplayed

Spec == Init /\ [][Next]_vars

-----------------------------------------------------------------------------
(* The state machine of a PositionMap driven through its own API *)

MapCall(op, id, pos, m, outcome) ==
    /\ map' = m
    /\ map_last' = [op |-> op, id |-> id, pos |-> pos, outcome |-> outcome]
    /\ map_pre' = map
    /\ UNCHANGED schemaVars

MapPush ==
    /\ PMLen(map) < MaxMapLen
    /\ \E id \in 0..MaxId : MapCall("push", id, 0, PMPush(map, id), "returned")

MapInsert ==
    /\ PMLen(map) < MaxMapLen
    /\ \E id \in 0..MaxId, pos \in 0..MaxPos :
          LET r == PMInsert(map, id, pos)
          IN  MapCall("insert", id, pos, r.m, r.outcome)

InitPM == InitSchema(SchemaDefault) /\ InitMap

NextPM == MapPush \/ MapInsert

SpecPM == InitPM /\ [][NextPM]_vars

-----------------------------------------------------------------------------
(* The state machine of the field order of a schema that knows three fields *)

\* Schema::default() after insert("title"), insert("body") and insert("id"), on
\* an interner that has room for the three: no call that follows allocates
ThreeFields ==
    [SchemaDefault EXCEPT !.fields_map =
        [name_map |-> [n \in Names |-> CASE n = "title" -> 0 [] n = "body" -> 1 [] n = "id" -> 2],
         id_map |-> <<"title", "body", "id">>,
         next_id |-> 3]]

InitOrder == InitSchema(ThreeFields) /\ InitMap

NextOrder == InsertWithPosition \/ UpdateSearchable \/ SetAllFieldsAsIndexed

SpecOrder == InitOrder /\ [][NextOrder]_vars

-----------------------------------------------------------------------------
(* Helpers of the properties *)

\* a position map that is a bijection between its identifiers and 0..len-1
Bijective(m) ==
    /\ IsDistinct(m.pos_to_field)
    /\ DOMAIN m.field_to_pos = Range(m.pos_to_field)
    /\ PMLen(m) = Cardinality(DOMAIN m.field_to_pos)
    /\ \A f \in DOMAIN m.field_to_pos : PMPosToField(m, m.field_to_pos[f]) = Some(f)
    /\ \A p \in 0..(PMLen(m) - 1) :
          \E f \in PMPosToField(m, p) : PMFieldToPos(m, f) = Some(p)

KnownIds(s) == {p[2] : p \in FieldsMapIter(s.fields_map)}

Positioned(s) == {f \in KnownIds(s) : get_position(s, f) # None}

NamesOf(s, ids) == UNION {schema_name(s, f) : f \in ids}

Exhausted == "MaxFieldsLimitExceeded"

Ops ==
    {"insert", "insert_with_position", "set_primary_key", "set_ranked", "clear_ranked",
     "update_ranked", "update_displayed", "update_searchable",
     "set_all_fields_as_indexed", "set_all_fields_as_displayed"}

\* the outcomes of the calls of `op` on s, over all arguments
CallsOf(s, op) ==
    CASE op = "insert" -> {insert(s, n) : n \in Names}
      [] op = "insert_with_position" -> {insert_with_position(s, n) : n \in Names}
      [] op = "set_primary_key" -> {set_primary_key(s, n) : n \in Names}
      [] op = "set_ranked" -> {set_ranked(s, n) : n \in Names}
      [] op = "clear_ranked" -> {clear_ranked(s)}
      [] op = "update_ranked" -> {update_ranked(s, d) : d \in DataLists}
      [] op = "update_displayed" -> {update_displayed(s, d) : d \in DataLists}
      [] op = "update_searchable" -> {update_searchable(s, d) : d \in DataLists}
      [] op = "set_all_fields_as_indexed" -> {set_all_fields_as_indexed(s)}
      [] op = "set_all_fields_as_displayed" -> {set_all_fields_as_displayed(s)}

\* the outcomes of the calls on s that intern the one name n
InterningCalls(s, n) ==
    {insert(s, n), insert_with_position(s, n), set_primary_key(s, n), set_ranked(s, n)}

-----------------------------------------------------------------------------
(* C1 *)

\* C1: in every reachable state the position map is a bijection between the
\* positioned identifiers and 0..N-1, N the number of identifiers ever
\* positioned: no identifier at two positions, field_to_pos and pos_to_field
\* inverse of each other.
C1_PositionMapBijection == Bijective(indexed_position)

-----------------------------------------------------------------------------
(* C2 *)

\* C2: on every reachable schema, a successful update_searchable(names), names
\* pairwise distinct, leaves the identifier of names[i] at position i, in both
\* lookups.
C2_ListedFieldsAtTheirIndex ==
    \A d \in DataLists :
        LET r == update_searchable(Cur, d)
        IN  (IsDistinct(d) /\ r.res.ok)
            => \A i \in 1..Len(d) :
                  \E id \in schema_id(r.s, d[i]) :
                     /\ get_position(r.s, id) = Some(i - 1)
                     /\ indexed_pos_to_field_id(r.s, i - 1) = Some(id)

-----------------------------------------------------------------------------
(* C3 *)

\* C3: on every reachable schema, searchable All or a Subset, a successful
\* update_searchable(names) leaves searchable_attributes_str() equal to names,
\* in input order, and is_searchable_all() false.
C3_SearchableReplaced ==
    /\ \A d \in DataLists :
          LET r == update_searchable(Cur, d)
          IN  r.res.ok => /\ searchable_attributes_str(r.s) = d
                          /\ ~is_searchable_all(r.s)

\* update_searchable has replaced a list by a list of two names, and another
\* replacement is possible
C3_Witness ==
    /\ last.ok
    /\ ~is_searchable_all(Cur)
    /\ Len(searchable_attributes_str(Cur)) = 2
    /\ \E d \in DataLists : d # <<>> /\ d # searchable_attributes_str(Cur)
                              /\ update_searchable(Cur, d).res.ok

-----------------------------------------------------------------------------
(* C4 *)

-----------------------------------------------------------------------------
(* C5 *)

\* C5: on a schema whose primary key is set, set_primary_key(name) returns
\* PrimaryKeyAlreadyPresent and changes nothing: not the primary key, not the
\* interner (name stays unknown if it was), no predicate, no position.
C5_PrimaryKeyConflict ==
    /\ primary_key # None =>
          \A n \in Names :
              LET r == set_primary_key(Cur, n)
              IN  /\ r.res = Err("PrimaryKeyAlreadyPresent")
                  /\ r.s = Cur
                  /\ primary_key_name(r.s) = primary_key_name(Cur)
                  /\ schema_id(r.s, n) = schema_id(Cur, n)
    /\ last.err = "PrimaryKeyAlreadyPresent" => primary_key # None

\* set_primary_key has just been refused, on a schema that has a name to spare
C5_Witness ==
    /\ last.err = "PrimaryKeyAlreadyPresent"
    /\ primary_key_name(Cur) # {}
    /\ fields_map.next_id < MaxFields
    /\ \E n \in Names : schema_id(Cur, n) = None

-----------------------------------------------------------------------------
(* C6 *)

\* C6: an operation that fails because the interner is exhausted leaves the
\* whole schema as it was, wherever in its list the failing name is.
C6_ExhaustionLeavesSchemaUnchanged ==
    \A op \in Ops : \A r \in CallsOf(Cur, op) : r.res.err = Exhausted => r.s = Cur

-----------------------------------------------------------------------------
(* C7 *)

\* C7: the k-th distinct name interned gets identifier k-1, a known name keeps
\* its identifier and re-interning it returns that identifier and adds no name,
\* and name(id(n)) = n for every known name n.
C7_InternerBijection ==
    /\ Cardinality(names(Cur)) = fields_map.next_id
    /\ KnownIds(Cur) = 0..(fields_map.next_id - 1)
    /\ \A n \in names(Cur) : \E id \in schema_id(Cur, n) : schema_name(Cur, id) = Some(n)
    /\ \A id \in KnownIds(Cur) : \E n \in schema_name(Cur, id) : schema_id(Cur, n) = Some(id)
    /\ \A n \in Names : \A r \in InterningCalls(Cur, n) :
          r.res.ok =>
             /\ schema_id(r.s, n) = Some(r.res.val[1])
             /\ n \in names(Cur) => /\ schema_id(Cur, n) = Some(r.res.val[1])
                                    /\ names(r.s) = names(Cur)
             /\ n \notin names(Cur) => /\ r.res.val[1] = Cardinality(names(Cur))
                                       /\ names(r.s) = names(Cur) \cup {n}
    /\ \A op \in Ops : \A r \in CallsOf(Cur, op) :
          \A n \in names(Cur) : schema_id(r.s, n) = schema_id(Cur, n)

\* the primary key, the first name interned, has been interned again by
\* insert_with_position after a second name was interned and positioned
C7_Witness ==
    /\ last.ok
    /\ Cardinality(names(Cur)) = 2
    /\ \E id \in primary_key : get_position(Cur, id) = Some(1) /\ id = 0

-----------------------------------------------------------------------------
(* C8 *)

\* C8: PositionMap::insert(id, pos) on a well-formed map, pos at most the
\* number of other positioned identifiers, leaves id at position pos in both
\* lookups, whether id is new or moved from a lower or a higher position.
C8_InsertPlacesAtPos ==
    (/\ map_last.op = "insert"
     /\ map_last.outcome = "returned"
     /\ Bijective(map_pre)
     /\ map_last.pos <= Cardinality(DOMAIN map_pre.field_to_pos \ {map_last.id}))
    => /\ PMFieldToPos(map, map_last.id) = Some(map_last.pos)
       /\ PMPosToField(map, map_last.pos) = Some(map_last.id)

-----------------------------------------------------------------------------
(* C9 *)

\* C9: push of an identifier that is already positioned, and insert of a new
\* identifier at a position beyond length + 1, end in a failure and leave the
\* map unchanged.
C9_PreconditionViolationsSurfaced ==
    /\ (map_last.op = "push" /\ map_last.id \in DOMAIN map_pre.field_to_pos)
          => (map_last.outcome # "returned" /\ map = map_pre)
    /\ (/\ map_last.op = "insert"
        /\ map_last.id \notin DOMAIN map_pre.field_to_pos
        /\ map_last.pos > PMLen(map_pre) + 1)
          => (map_last.outcome # "returned" /\ map = map_pre)

-----------------------------------------------------------------------------
(* C10 *)

DisplayedModeOps == {"update_displayed", "set_all_fields_as_displayed"}

SearchableModeOps == {"update_searchable", "set_all_fields_as_indexed"}

\* what C10 and its amendment share: two modes, All at the start, the
\* set_all_fields_as_* calls lead to All, update_displayed leads to Subset, and
\* the other operations keep the mode
ModeMachineCommon ==
    /\ displayed.tag \in {"All", "Some"}
    /\ searchable.tag \in {"All", "Some"}
    /\ \A s \in {SchemaDefault} \cup {with_primary_key(n) : n \in Names} :
          is_displayed_all(s) /\ is_searchable_all(s)
    /\ \A r \in CallsOf(Cur, "update_displayed") : ~is_displayed_all(r.s)
    /\ \A r \in CallsOf(Cur, "set_all_fields_as_displayed") : is_displayed_all(r.s)
    /\ \A r \in CallsOf(Cur, "set_all_fields_as_indexed") : is_searchable_all(r.s)
    /\ \A op \in Ops \ DisplayedModeOps : \A r \in CallsOf(Cur, op) :
          is_displayed_all(r.s) = is_displayed_all(Cur)
    /\ \A op \in Ops \ SearchableModeOps : \A r \in CallsOf(Cur, op) :
          is_searchable_all(r.s) = is_searchable_all(Cur)

\* C10: displayed and searchable start in All; from any state update_displayed
\* and update_searchable, also with an empty list, leave their predicate in
\* Subset; set_all_fields_as_* leave it in All; no other operation changes a
\* mode.
C10_ModeStateMachine ==
    /\ ModeMachineCommon
    /\ \A r \in CallsOf(Cur, "update_searchable") : ~is_searchable_all(r.s)

\* C10, amended: as C10, but update_searchable leaves searchable in Subset
\* when it succeeds and in the mode it had when it fails.
C10_ModeStateMachineOnSuccess ==
    /\ ModeMachineCommon
    /\ \A r \in CallsOf(Cur, "update_searchable") :
          /\ r.res.ok => ~is_searchable_all(r.s)
          /\ ~r.res.ok => is_searchable_all(r.s) = is_searchable_all(Cur)

\* update_searchable has succeeded with an empty list, displayed being a Subset
C10_Witness ==
    /\ last.ok
    /\ searchable = OptSome(<<>>)
    /\ ~is_displayed_all(Cur)
    /\ KnownIds(Cur) # {}

-----------------------------------------------------------------------------
(* C11 *)

\* the operations C11 names: they intern a name and are not an update of
\* displayed or searchable
FrozenOps == {"insert", "insert_with_position", "set_primary_key", "set_ranked", "update_ranked"}

\* C11: while displayed (searchable) is a Subset, insert, insert_with_position,
\* set_primary_key, set_ranked and update_ranked leave displayed_names()
\* (searchable_attributes_str()) as it was, no identifier they intern is
\* displayed, and a displayed Subset holds known identifiers only, so that an
\* identifier interned later is never in it.
C11_SubsetFrozen ==
    /\ ~is_displayed_all(Cur) =>
          /\ displayed_ids(Cur) \subseteq KnownIds(Cur)
          /\ \A op \in FrozenOps : \A r \in CallsOf(Cur, op) :
                /\ displayed_names(r.s) = displayed_names(Cur)
                /\ \A id \in KnownIds(r.s) \ KnownIds(Cur) : ~is_displayed(r.s, id)
    /\ ~is_searchable_all(Cur) =>
          \A op \in FrozenOps : \A r \in CallsOf(Cur, op) :
              searchable_attributes_str(r.s) = searchable_attributes_str(Cur)

\* both predicates are non-empty Subsets, and a field interned with a larger
\* identifier than any of theirs is in neither
C11_Witness ==
    /\ last.ok
    /\ ~is_displayed_all(Cur) /\ displayed_names(Cur) # {}
    /\ ~is_searchable_all(Cur) /\ searchable_attributes_str(Cur) # <<>>
    /\ \E id \in KnownIds(Cur) :
          /\ \A d \in displayed_ids(Cur) \cup Range(searchable_attributes(Cur)) : d < id
          /\ ~is_displayed(Cur, id)
          /\ \E n \in schema_name(Cur, id) : n \notin Range(searchable_attributes_str(Cur))

-----------------------------------------------------------------------------
(* C12 *)

\* C12: with_primary_key(name) and a successful set_primary_key(name) intern
\* name and make it the primary key, and change nothing else: no position (a
\* name that had none has none), ranked, displayed and searchable as they
\* were. On with_primary_key(pk), insert_with_position of another name returns
\* position 0, and insert_with_position(pk) then returns the identifier 0 of
\* the primary key and position 1; on any schema whose primary key has no
\* position, insert_with_position of its name returns its identifier and the
\* next free position.
C12_PrimaryKeyOnly ==
    /\ \A n \in Names :
          LET r == set_primary_key(Cur, n)
          IN  r.res.ok =>
                /\ primary_key_name(r.s) = {n}
                /\ schema_id(r.s, n) = r.s.primary_key
                /\ r.s.ranked = Cur.ranked
                /\ r.s.displayed = Cur.displayed
                /\ r.s.searchable = Cur.searchable
                /\ r.s.indexed_position = Cur.indexed_position
                /\ \A id \in r.s.primary_key :
                      get_position(r.s, id) = IF id \in KnownIds(Cur)
                                              THEN get_position(Cur, id) ELSE None
    /\ \A pk \in Names :
          LET s0 == with_primary_key(pk)
          IN  /\ primary_key_name(s0) = {pk}
              /\ schema_id(s0, pk) = s0.primary_key
              /\ \A id \in s0.primary_key : get_position(s0, id) = None
              /\ [s0 EXCEPT !.fields_map = FieldsMapDefault, !.primary_key = None]
                    = SchemaDefault
              /\ \A other \in Names \ {pk} :
                    LET r1 == insert_with_position(s0, other)
                        r2 == insert_with_position(r1.s, pk)
                    IN  /\ r1.res = Ok(<<1, 0>>)
                        /\ r2.res = Ok(<<0, 1>>)
                        /\ r2.s.primary_key = s0.primary_key
    /\ \A id \in primary_key : \A n \in schema_name(Cur, id) :
          get_position(Cur, id) = None =>
             insert_with_position(Cur, n).res = Ok(<<id, PMLen(indexed_position)>>)

\* set_primary_key has succeeded on a name interned second (with_primary_key
\* issues identifier 0), the predicates being set: the primary key has no
\* position while the other field has one
C12_Witness ==
    /\ last.ok
    /\ primary_key = Some(1)
    /\ get_position(Cur, 1) = None
    /\ get_position(Cur, 0) = Some(0)
    /\ ranked # {}
    /\ ~is_displayed_all(Cur)
    /\ ~is_searchable_all(Cur)

-----------------------------------------------------------------------------
(* C13 *)

\* the sequence v with every occurrence of id taken out
Without(v, id) == SelectSeq(v, LAMBDA x : x # id)

\* C13: PositionMap::insert(id, pos) leaves the positioned identifiers it
\* found, plus id; the map is one longer if id had no position and as long as
\* before if it had one; and the identifiers other than id are in the order
\* they were in, in the sequence of positions and in the positions looked up.
C13_InsertDisplaces ==
    (map_last.op = "insert" /\ map_last.outcome = "returned") =>
        LET id  == map_last.id
            was == id \in DOMAIN map_pre.field_to_pos
        IN  /\ DOMAIN map.field_to_pos = DOMAIN map_pre.field_to_pos \cup {id}
            /\ Range(map.pos_to_field) = Range(map_pre.pos_to_field) \cup {id}
            /\ PMLen(map) = PMLen(map_pre) + (IF was THEN 0 ELSE 1)
            /\ Without(map.pos_to_field, id) = Without(map_pre.pos_to_field, id)
            /\ \A f, g \in DOMAIN map_pre.field_to_pos \ {id} :
                  (map_pre.field_to_pos[f] < map_pre.field_to_pos[g])
                     <=> (map.field_to_pos[f] < map.field_to_pos[g])

\* insert has put a new identifier on an occupied position of a well-formed
\* map of two, and the occupant is one position further
C13_Witness ==
    /\ map_last.op = "insert"
    /\ map_last.outcome = "returned"
    /\ Bijective(map_pre)
    /\ PMLen(map_pre) = 2
    /\ map_last.id \notin DOMAIN map_pre.field_to_pos
    /\ map_last.pos = 0
    /\ \E f \in PMPosToField(map_pre, 0) : PMFieldToPos(map, f) = Some(1)

-----------------------------------------------------------------------------
(* C14 *)

\* the fields of s with a position that are not named in d
Unlisted(s, d) == {f \in Positioned(s) : schema_name(s, f) \cap Range(d) = {}}

\* the unlisted fields of Cur keep a position in t, after the listed ones, and
\* their order
DisplacedToTail(t, d) ==
    /\ \A f \in Unlisted(Cur, d) :
          \E p \in get_position(t, f) : p >= Cardinality(Range(d))
    /\ \A f, g \in Unlisted(Cur, d) :
          \A p \in get_position(Cur, f), q \in get_position(Cur, g) :
             \A pp \in get_position(t, f), qq \in get_position(t, g) :
                (p < q) <=> (pp < qq)

-----------------------------------------------------------------------------
(* C15 *)

\* C15: a successful insert_with_position(name) returns the identifier the
\* interner has for name and the length the position map had; afterwards that
\* identifier is at that position, in both lookups, and every field that had a
\* position has the same one.
C15_InsertWithPositionAppends ==
    \A n \in Names :
        LET r == insert_with_position(Cur, n)
        IN  r.res.ok =>
              LET id == r.res.val[1]
                  p  == r.res.val[2]
              IN  /\ schema_id(r.s, n) = Some(id)
                  /\ p = PMLen(indexed_position)
                  /\ get_position(r.s, id) = Some(p)
                  /\ indexed_pos_to_field_id(r.s, p) = Some(id)
                  /\ \A f \in Positioned(Cur) : get_position(r.s, f) = get_position(Cur, f)

-----------------------------------------------------------------------------
(* C16 *)

RankedOps == {"set_ranked", "update_ranked", "clear_ranked"}

PositionOps == {"insert_with_position", "update_searchable"}

\* C16: set_ranked, update_ranked and clear_ranked change the ranked set and
\* the interner only; update_displayed and set_all_fields_as_displayed change
\* displayed and the interner only; set_all_fields_as_indexed changes
\* searchable only, to All; insert and set_primary_key change no predicate;
\* and only insert_with_position and update_searchable change the position
\* map. Calls that return an error are included.
C16_PredicatesIndependent ==
    /\ \A op \in RankedOps : \A r \in CallsOf(Cur, op) :
          r.s = [Cur EXCEPT !.ranked = r.s.ranked, !.fields_map = r.s.fields_map]
    /\ \A op \in DisplayedModeOps : \A r \in CallsOf(Cur, op) :
          r.s = [Cur EXCEPT !.displayed = r.s.displayed, !.fields_map = r.s.fields_map]
    /\ \A r \in CallsOf(Cur, "set_all_fields_as_indexed") :
          r.s = [Cur EXCEPT !.searchable = OptAll]
    /\ \A op \in {"insert", "set_primary_key"} : \A r \in CallsOf(Cur, op) :
          /\ r.s.ranked = Cur.ranked
          /\ r.s.displayed = Cur.displayed
          /\ r.s.searchable = Cur.searchable
    /\ \A op \in Ops \ PositionOps : \A r \in CallsOf(Cur, op) :
          r.s.indexed_position = Cur.indexed_position

\* the three predicates differ from one another and from their initial
\* values, two fields have a position, and the last call succeeded
C16_Witness ==
    /\ last.ok
    /\ Cardinality(ranked) = 1
    /\ ~is_displayed_all(Cur) /\ Cardinality(displayed_ids(Cur)) = 2
    /\ ~is_searchable_all(Cur) /\ searchable_attributes(Cur) = <<1>>
    /\ Bijective(indexed_position) /\ PMLen(indexed_position) = 2
    /\ primary_key = Some(0)

-----------------------------------------------------------------------------
(* C17 *)

\* what C17 says of every state: in All mode displayed_names() is every known
\* name, and a known identifier is displayed iff its name is in
\* displayed_names(); and of every call: a Subset is left as it is by the
\* operations other than update_displayed and set_all_fields_as_displayed
DisplayedNamesCommon ==
    /\ is_displayed_all(Cur) => displayed_names(Cur) = names(Cur)
    /\ \A id \in KnownIds(Cur) :
          is_displayed(Cur, id) <=> (schema_name(Cur, id) \cap displayed_names(Cur) # {})
    /\ \A op \in Ops : \A r \in CallsOf(Cur, op) :
          /\ is_displayed_all(r.s) => displayed_names(r.s) = names(r.s)
          /\ (op \notin DisplayedModeOps /\ ~is_displayed_all(Cur))
                => displayed_names(r.s) = displayed_names(Cur)

\* C17: in every reachable state, displayed_names() is every known name in All
\* mode and, in Subset mode, the set of the names given to the last
\* update_displayed, whatever the payload was before; and a known identifier
\* is displayed iff its name is in displayed_names().
C17_DisplayedNamesAgree ==
    /\ DisplayedNamesCommon
    /\ \A d \in DataLists :
          LET r == update_displayed(Cur, d)
          IN  ~is_displayed_all(r.s) => displayed_names(r.s) = Range(d)

-----------------------------------------------------------------------------
(* C18 *)

\* v lists every positioned field of s once, by name, at its position
ListsPositioned(s, v) ==
    /\ Len(v) = Cardinality(Positioned(s))
    /\ \A f \in Positioned(s) :
          \E p \in get_position(s, f) :
             p + 1 \in DOMAIN v /\ schema_name(s, f) = Some(v[p + 1])

\* C18: whenever searchable is in All mode, searchable_attributes_str() is the
\* names of the positioned fields, each once, in the order of their
\* positions; a field added by insert_with_position is the last of them; and
\* after update_searchable(names) and set_all_fields_as_indexed() it is names
\* followed by the other positioned fields.
C18_AllModeFollowsPositions ==
    /\ is_searchable_all(Cur) => ListsPositioned(Cur, searchable_attributes_str(Cur))
    /\ \A n \in Names :
          LET r == insert_with_position(Cur, n)
              v == searchable_attributes_str(r.s)
          IN  (r.res.ok /\ is_searchable_all(r.s)) =>
                 /\ ListsPositioned(r.s, v)
                 /\ v # <<>> /\ v[Len(v)] = n
    /\ \A d \in DataLists :
          LET r == update_searchable(Cur, d)
              t == set_all_fields_as_indexed(r.s).s
              v == searchable_attributes_str(t)
          IN  r.res.ok =>
                 /\ ListsPositioned(t, v)
                 /\ Len(v) >= Len(d)
                 /\ SubSeq(v, 1, Len(d)) = d
                 /\ Range(SubSeq(v, Len(d) + 1, Len(v)))
                       = NamesOf(Cur, Positioned(Cur)) \ Range(d)

-----------------------------------------------------------------------------
(* C19 *)

\* every identifier the schema s stores
StoredIds(s) ==
    s.primary_key \cup s.ranked
      \cup (IF s.displayed.tag = "Some" THEN s.displayed.v ELSE {})
      \cup (IF s.searchable.tag = "Some" THEN Range(s.searchable.v) ELSE {})
      \cup Range(s.indexed_position.pos_to_field)
      \cup DOMAIN s.indexed_position.field_to_pos

\* no stored identifier of s is unknown to its interner, and no read entry
\* point of s meets an identifier without a name
AllIssued(s) ==
    /\ StoredIds(s) \subseteq KnownIds(s)
    /\ \A id \in StoredIds(s) : schema_name(s, id) # None
    /\ s.primary_key # None => primary_key_name(s) # {}
    /\ Cardinality(displayed_names(s)) = Cardinality(displayed_ids(s))
    /\ Len(searchable_attributes_str(s)) = Len(searchable_attributes(s))

\* C19: in every reachable state, and after every call on it that writes the
\* position map (however long the map has grown), the identifiers
\* in primary_key, ranked, a displayed Subset, a searchable Subset and the
\* position map were issued by the interner of the schema: primary_key() finds
\* a name, and displayed_names() and searchable_attributes_str() drop nothing.
C19_StoredIdsIssued ==
    /\ AllIssued(Cur)
    /\ \A op \in PositionOps : \A r \in CallsOf(Cur, op) : AllIssued(r.s)

\* every store holds an identifier: a primary key, a ranked field, a displayed
\* and a searchable Subset, and two positions
C19_Witness ==
    /\ primary_key # None
    /\ ranked # {}
    /\ displayed.tag = "Some" /\ displayed.v # {}
    /\ searchable.tag = "Some" /\ searchable.v # <<>>
    /\ PMLen(indexed_position) = 2
    /\ Cardinality(StoredIds(Cur)) = 2

-----------------------------------------------------------------------------
(* C20 *)

\* C20: in no state between two public operations, and after no call, one
\* that returned an error included, is displayed or searchable None; and
\* update_displayed of the empty list leaves displayed Some of the empty set,
\* for which no identifier is displayed.
C20_NoneNeverObservable ==
    /\ displayed.tag \in {"All", "Some"}
    /\ searchable.tag \in {"All", "Some"}
    /\ \A op \in Ops : \A r \in CallsOf(Cur, op) :
          /\ r.s.displayed.tag \in {"All", "Some"}
          /\ r.s.searchable.tag \in {"All", "Some"}
    /\ LET r == update_displayed(Cur, <<>>)
       IN  /\ r.res.ok
           /\ r.s.displayed = OptSome({})
           /\ \A id \in 0..MaxFields : ~is_displayed(r.s, id)
           /\ displayed_names(r.s) = {}

\* update_displayed has returned the error of the exhausted interner on its
\* first name, and has left displayed Some of the empty set
C20_Witness ==
    /\ last.err = Exhausted
    /\ displayed = OptSome({})
    /\ fields_map.next_id = MaxFields
    /\ \A id \in KnownIds(Cur) : ~is_displayed(Cur, id)

====
